---- MODULE Spec2Model ----
(***************************************************************************)
(* Model of the consumer-group coordinator of consumergroup/               *)
(* consumer_group.go: the top-level loop (topicListConsumer), the topic    *)
(* consumers, the partition consumers and Close, against a metadata store  *)
(* with create-if-absent partition claims.                                 *)
(***************************************************************************)
EXTENDS Integers, Sequences, FiniteSets, TLC

\* ---- bounds of the model ----
NumTopics == 2
NumParts == 1
MaxGen == 2
NumClosers == 2
ChannelBufferSize == 1
\* Offsets.ProcessingTimeout in whole seconds
ProcessingTimeoutSec == 0
\* time.Second: durations are counted in half seconds
Second == 2
\* the largest Offsets.ProcessingTimeout tried, in half seconds
MaxTimeout == 5
\* number of errors sent on cg.errors whose contents are kept
HistCap == 2
\* the longest topic list and endpoint list Join is called with
MaxList == 1
\* the largest number of cgConstructor arguments Join is called with
MaxConstructors == 2
\* the largest CommitInterval and Zookeeper.Timeout Join is called with
MaxInterval == 1
\* the broker's log of the partition never ends beyond this offset
MaxOffset == 3
\* the number of times the partition is consumed, one holder after another
MaxRuns == 3
\* the number of records sent on Messages() that are kept per handle
SentCap == 3
\* sarama.OffsetNewest and sarama.OffsetOldest
OffsetNewest == -1
OffsetOldest == -2

Fleet == {1, 2}
Solo == {2}
Peers == Fleet \ Solo
Topics == 1..NumTopics
Parts == 1..NumParts
Gens == 1..MaxGen
Closers == 1..NumClosers
TW == Fleet \X Gens \X Topics
PW == Fleet \X Gens \X Topics \X Parts

VARIABLES
  topics,      \* number of topics the instance was joined with (1..topics)
  tlPC,        \* position of topicListConsumer of each instance
  spawnIdx,    \* index of the next topic the spawn loop handles
  gen,         \* number of generations the top-level loop has started
  mu,          \* cg.mu: "free", "loop" or "close"
  stopper,     \* cg.stopper is closed
  wg,          \* counter of cg.wg
  ctxDone,     \* the context of generation g is cancelled
  consumers,   \* cg.consumers, the member-list snapshot
  watch,       \* consumerChanges of the current generation: none/armed/fired
  tcPC,        \* position of each topicConsumer
  lwg,         \* counter of the wait-group local to each topicConsumer
  pcPC,        \* position of each partitionConsumer
  tries,       \* loop variable of partitionClaimLoop
  acquired,    \* a ClaimPartition call of the running worker returned nil
  released,    \* the running worker has called ReleasePartition
  messages,    \* cg.messages: [len, closed]
  errors,      \* cg.errors: [len, closed]
  once,        \* cg.singleShutdown: "new", "running", "done"
  clPC,        \* position of each Close call
  ret,         \* value returned by each Close call
  instance,    \* cg.instance: "set" or "nil"
  crashed,     \* the process has panicked
  log,         \* the shutdown steps executed so far, in order
  registered,  \* store: the registered instances
  claims,      \* store: the partition claims, <<topic, partition, instance>>
  timeout,     \* config.Offsets.ProcessingTimeout, in half seconds
  histCap,     \* how many of the errors sent are kept in errLog
  errLog,      \* the first errors sent on cg.errors, in order
  join,        \* a call of JoinConsumerGroup: its arguments and its outcome
  initial,     \* config.Offsets.Initial
  blog,        \* the broker's log of one partition: records oldest..newest-1
  stream,      \* the sarama.PartitionConsumer: none/open/broken, next offset,
               \* and whether it was opened by the out-of-range retry
  part,        \* the partitionConsumer of that partition: holder, locals
  sent,        \* per handle, the records of the partition sent on Messages()
  ledger,      \* per instance, the offset manager's entry of the partition
  committed    \* store: the committed offset of the partition (-1: none)

vars == <<topics, tlPC, spawnIdx, gen, mu, stopper, wg, ctxDone, consumers, watch,
          tcPC, lwg, pcPC, tries, acquired, released, messages, errors, once,
          clPC, ret, instance, crashed, log, registered, claims,
          timeout, histCap, errLog, join, initial, blog, stream, part, sent,
          ledger, committed>>

coreVars == <<topics, tlPC, spawnIdx, gen, mu, stopper, wg, ctxDone, consumers,
              watch, tcPC, lwg, pcPC, tries, acquired, released, messages,
              errors, once, clPC, ret, instance, crashed, log, registered,
              claims>>
loopVars == <<topics, tlPC, spawnIdx, gen, mu, consumers, watch>>
workerVars == <<tcPC, lwg, pcPC, tries, acquired, released>>
closeVars == <<once, clPC, ret, log>>
chanVars == <<messages, errors>>
storeVars == <<registered, claims>>
cfgVars == <<timeout, histCap>>
offsetVars == <<initial, blog, stream, part, sent, ledger, committed>>
auxVars == <<cfgVars, join, offsetVars>>

\* ---- pure helpers ----

\* integer division of Go: the quotient is truncated toward zero
Quot(a, b) == IF a >= 0 THEN a \div b ELSE -((-a) \div b)

\* maxRetries := int(ProcessingTimeout/time.Second) + 2
maxRetries == Quot(timeout, Second) + 2

Min(a, b) == IF a < b THEN a ELSE b

\* position of member i in the sorted member list cs (0-based)
IndexOf(i, cs) == Cardinality({j \in cs : j < i})

\* dividePartitionsBetweenConsumers: contiguous slices of the sorted
\* partition list, sizes differing by at most one, slice k for member k
dividePartitionsBetweenConsumers(cs, i) ==
  IF i \notin cs THEN {}
  ELSE LET clen == Cardinality(cs)
           n == NumParts \div clen
           m == NumParts % clen
           k == IndexOf(i, cs)
           first == k * n + Min(k, m)
           last == first + n + (IF k < m THEN 1 ELSE 0)
       IN {p \in Parts : first < p /\ p <= last}

\* a watch fires on any add/remove of a member
FireWatches(w) == [i \in Fleet |-> IF w[i] = "armed" THEN "fired" ELSE w[i]]

Alive(i) == ~crashed[i]

\* ---- initial state: nothing joined yet ----
Constructed ==
  /\ topics = [i \in Fleet |-> 0]
  /\ tlPC = [i \in Fleet |-> "none"]
  /\ spawnIdx = [i \in Fleet |-> 1]
  /\ gen = [i \in Fleet |-> 0]
  /\ mu = [i \in Fleet |-> "free"]
  /\ stopper = [i \in Fleet |-> FALSE]
  /\ wg = [i \in Fleet |-> 0]
  /\ ctxDone = [i \in Fleet |-> [g \in Gens |-> FALSE]]
  /\ consumers = [i \in Fleet |-> {}]
  /\ watch = [i \in Fleet |-> "none"]
  /\ tcPC = [w \in TW |-> "idle"]
  /\ lwg = [w \in TW |-> 0]
  /\ pcPC = [w \in PW |-> "idle"]
  /\ tries = [w \in PW |-> 0]
  /\ acquired = [w \in PW |-> FALSE]
  /\ released = [w \in PW |-> FALSE]
  /\ messages = [i \in Fleet |-> [len |-> 0, closed |-> 0]]
  /\ errors = [i \in Fleet |-> [len |-> 0, closed |-> 0]]
  /\ once = [i \in Fleet |-> "new"]
  /\ clPC = [i \in Fleet |-> [c \in Closers |-> "idle"]]
  /\ ret = [i \in Fleet |-> [c \in Closers |-> "none"]]
  /\ instance = [i \in Fleet |-> "set"]
  /\ crashed = [i \in Fleet |-> FALSE]
  /\ log = [i \in Fleet |-> <<>>]
  /\ registered = {}
  /\ claims = {}

\* the configuration: ProcessingTimeout pt, the first cap errors are kept
Configured(pt, cap) ==
  /\ timeout = pt
  /\ histCap = cap
  /\ errLog = [i \in Fleet |-> <<>>]

\* a pointer is nil or refers to one value
Nil == {}
Ref(x) == {x}
Deref(ptr) == CHOOSE x \in ptr : TRUE
Pointers(S) == {Nil} \cup {Ref(x) : x \in S}

\* NewConfig(): sarama.NewConfig(), kazoo.NewConfig(), OffsetOldest, a
\* positive CommitInterval
NewConfig ==
  Ref([Config |-> Ref("valid"), Zookeeper |-> Ref(MaxInterval),
       Initial |-> OffsetOldest, CommitInterval |-> MaxInterval])

\* Config: the embedded *sarama.Config (valid or not), Zookeeper (a
\* *kazoo.Config, of which the Timeout is kept), Offsets.Initial and
\* Offsets.CommitInterval
Configs ==
  [Config : Pointers({"valid", "invalid"}),
   Zookeeper : Pointers(0..MaxInterval),
   Initial : (OffsetOldest - 1)..0,
   CommitInterval : -1..MaxInterval]

\* the arguments of a JoinConsumerGroup call: the group name, the lengths
\* of the topic list, of the endpoint list and of cgConstructor, config, and
\* whether the constructor can reach the store and the brokers
JoinArguments ==
  [name : {"", "g"}, topics : 0..MaxList, zookeeper : 0..MaxList,
   config : Pointers(Configs), cgConstructor : 0..MaxConstructors,
   reachable : BOOLEAN]

\* no call of JoinConsumerGroup with recorded arguments is under way
NotCalled ==
  [pc |-> "idle",
   args |-> [name |-> "g", topics |-> 1, zookeeper |-> 1, config |-> Nil,
             cgConstructor |-> 0, reachable |-> TRUE],
   result |-> "none", constructed |-> FALSE, spawned |-> FALSE]

\* the partition whose offsets are followed: empty log, nothing committed,
\* no holder; Offsets.Initial is pol
Partition(pol) ==
  /\ initial = pol
  /\ blog = [oldest |-> 0, newest |-> 0]
  /\ stream = [state |-> "none", pos |-> 0, reset |-> FALSE]
  /\ part = [pc |-> "idle", inst |-> 0, gen |-> 0, nextOffset |-> -1,
             lastOffset |-> -1, msg |-> -1]
  /\ sent = [i \in Fleet |-> <<>>]
  /\ ledger = [i \in Fleet |-> Nil]
  /\ committed = -1

Init ==
  /\ Constructed
  /\ Configured(ProcessingTimeoutSec * Second, 0)
  /\ join = NotCalled
  /\ Partition(OffsetOldest)

\* ---- JoinConsumerGroup ----
\* with n topics: the constructor registers the instance, then the
\* top-level loop is spawned
JoinConsumerGroup(i, n) ==
  /\ tlPC[i] = "none"
  /\ topics' = [topics EXCEPT ![i] = n]
  /\ tlPC' = [tlPC EXCEPT ![i] = "lock"]
  /\ registered' = registered \cup {i}
  /\ watch' = FireWatches(watch)
  /\ UNCHANGED <<spawnIdx, gen, mu, stopper, wg, ctxDone, consumers,
                 workerVars, chanVars, closeVars, instance, crashed, claims>>
  /\ UNCHANGED <<auxVars, errLog>>

\* a member outside the modelled instances joins or leaves the group (of
\* interest as long as a top-level loop can still observe it)
PeerChange ==
  /\ \E i \in Solo : tlPC[i] # "exit"
  /\ \E q \in Peers :
       registered' = IF q \in registered THEN registered \ {q}
                     ELSE registered \cup {q}
  /\ watch' = FireWatches(watch)
  /\ UNCHANGED <<topics, tlPC, spawnIdx, gen, mu, stopper, wg, ctxDone,
                 consumers, workerVars, chanVars, closeVars, instance, crashed,
                 claims>>
  /\ UNCHANGED <<auxVars, errLog>>

\* ---- topicListConsumer ----

\* the select on cg.stopper at the start of an iteration
StopperSeen_NoCheck(i) == FALSE
StopperSeen(i) == stopper[i]

\* cg.wg.Wait()
wgWait_NoWait(i) == TRUE
wgWait(i) == wg[i] = 0

\* cg.mu.Lock() and the stopper check: return (unlocking) when the stopper
\* is closed, otherwise keep the mutex and go on to the watch
tlLock(i) ==
  /\ Alive(i)
  /\ tlPC[i] = "lock"
  /\ mu[i] = "free"
  /\ IF StopperSeen(i)
       THEN /\ tlPC' = [tlPC EXCEPT ![i] = "exit"]
            /\ UNCHANGED mu
       ELSE /\ gen[i] < MaxGen
            /\ tlPC' = [tlPC EXCEPT ![i] = "watch"]
            /\ mu' = [mu EXCEPT ![i] = "loop"]
  /\ UNCHANGED <<topics, spawnIdx, gen, stopper, wg, ctxDone, consumers, watch,
                 workerVars, chanVars, closeVars, instance, crashed, storeVars>>
  /\ UNCHANGED <<auxVars, errLog>>

\* context.WithCancel, limiter.Wait, WatchInstances succeeds:
\* cg.consumers = consumers
tlWatch(i) ==
  /\ Alive(i)
  /\ tlPC[i] = "watch"
  /\ gen' = [gen EXCEPT ![i] = @ + 1]
  /\ consumers' = [consumers EXCEPT ![i] = registered]
  /\ watch' = [watch EXCEPT ![i] = "armed"]
  /\ spawnIdx' = [spawnIdx EXCEPT ![i] = 1]
  /\ tlPC' = [tlPC EXCEPT ![i] = "spawn"]
  /\ UNCHANGED <<topics, mu, stopper, wg, ctxDone, workerVars, chanVars, closeVars,
                 instance, crashed, storeVars>>
  /\ UNCHANGED <<auxVars, errLog>>

\* the mutex after the failure branch of WatchInstances: cg.mu.Unlock()
\* precedes the return
WatchFailUnlock_Held == "loop"
WatchFailUnlock == "free"

\* WatchInstances fails: cancel(), cg.mu.Unlock(), return
tlWatchFail(i) ==
  /\ Alive(i)
  /\ tlPC[i] = "watch"
  /\ gen' = [gen EXCEPT ![i] = @ + 1]
  /\ ctxDone' = [ctxDone EXCEPT ![i][gen[i] + 1] = TRUE]
  /\ mu' = [mu EXCEPT ![i] = WatchFailUnlock]
  /\ tlPC' = [tlPC EXCEPT ![i] = "exit"]
  /\ UNCHANGED <<topics, spawnIdx, stopper, wg, consumers, watch, workerVars,
                 chanVars, closeVars, instance, crashed, storeVars>>
  /\ UNCHANGED <<auxVars, errLog>>

\* one round of the spawn loop: cg.wg.Add(1); go cg.topicConsumer(...)
tlSpawn(i) ==
  /\ Alive(i)
  /\ tlPC[i] = "spawn"
  /\ spawnIdx[i] <= topics[i]
  /\ wg' = [wg EXCEPT ![i] = @ + 1]
  /\ tcPC' = [tcPC EXCEPT ![<<i, gen[i], spawnIdx[i]>>] = "start"]
  /\ spawnIdx' = [spawnIdx EXCEPT ![i] = @ + 1]
  /\ UNCHANGED <<topics, tlPC, gen, mu, stopper, ctxDone, consumers, watch, lwg,
                 pcPC, tries, acquired, released, chanVars, closeVars,
                 instance, crashed, storeVars>>
  /\ UNCHANGED <<auxVars, errLog>>

\* cg.mu.Unlock() after the spawn loop
tlUnlock(i) ==
  /\ Alive(i)
  /\ tlPC[i] = "spawn"
  /\ spawnIdx[i] > topics[i]
  /\ mu' = [mu EXCEPT ![i] = "free"]
  /\ tlPC' = [tlPC EXCEPT ![i] = "select"]
  /\ UNCHANGED <<topics, spawnIdx, gen, stopper, wg, ctxDone, consumers, watch,
                 workerVars, chanVars, closeVars, instance, crashed, storeVars>>
  /\ UNCHANGED <<auxVars, errLog>>

\* select: case <-ctx.Done()
tlSelectCtx(i) ==
  /\ Alive(i)
  /\ tlPC[i] = "select"
  /\ ctxDone[i][gen[i]]
  /\ tlPC' = [tlPC EXCEPT ![i] = "ctxWait"]
  /\ UNCHANGED <<topics, spawnIdx, gen, mu, stopper, wg, ctxDone, consumers, watch,
                 workerVars, chanVars, closeVars, instance, crashed, storeVars>>
  /\ UNCHANGED <<auxVars, errLog>>

\* select: case <-cg.stopper: cancel(); return
tlSelectStopper(i) ==
  /\ Alive(i)
  /\ tlPC[i] = "select"
  /\ stopper[i]
  /\ ctxDone' = [ctxDone EXCEPT ![i][gen[i]] = TRUE]
  /\ tlPC' = [tlPC EXCEPT ![i] = "exit"]
  /\ UNCHANGED <<topics, spawnIdx, gen, mu, stopper, wg, consumers, watch,
                 workerVars, chanVars, closeVars, instance, crashed, storeVars>>
  /\ UNCHANGED <<auxVars, errLog>>

\* select: case <-consumerChanges
tlSelectChange(i) ==
  /\ Alive(i)
  /\ tlPC[i] = "select"
  /\ watch[i] = "fired"
  /\ watch' = [watch EXCEPT ![i] = "none"]
  /\ tlPC' = [tlPC EXCEPT ![i] = "chgRegistered"]
  /\ UNCHANGED <<topics, spawnIdx, gen, mu, stopper, wg, ctxDone, consumers,
                 workerVars, chanVars, closeVars, instance, crashed, storeVars>>
  /\ UNCHANGED <<auxVars, errLog>>

\* cg.instance.Registered(): a nil handle panics
tlRegistered(i) ==
  /\ Alive(i)
  /\ tlPC[i] = "chgRegistered"
  /\ IF instance[i] = "nil"
       THEN /\ crashed' = [crashed EXCEPT ![i] = TRUE]
            /\ UNCHANGED tlPC
       ELSE /\ tlPC' = [tlPC EXCEPT ![i] =
                 IF i \in registered THEN "chgCancel" ELSE "chgRegister"]
            /\ UNCHANGED crashed
  /\ UNCHANGED <<topics, spawnIdx, gen, mu, stopper, wg, ctxDone, consumers, watch,
                 workerVars, chanVars, closeVars, instance, storeVars>>
  /\ UNCHANGED <<auxVars, errLog>>

\* cg.instance.Register(topics): a nil handle panics
tlRegister(i) ==
  /\ Alive(i)
  /\ tlPC[i] = "chgRegister"
  /\ IF instance[i] = "nil"
       THEN /\ crashed' = [crashed EXCEPT ![i] = TRUE]
            /\ UNCHANGED <<tlPC, registered, watch>>
       ELSE /\ tlPC' = [tlPC EXCEPT ![i] = "chgCancel"]
            /\ registered' = registered \cup {i}
            /\ watch' = FireWatches(watch)
            /\ UNCHANGED crashed
  /\ UNCHANGED <<topics, spawnIdx, gen, mu, stopper, wg, ctxDone, consumers,
                 workerVars, chanVars, closeVars, instance, claims>>
  /\ UNCHANGED <<auxVars, errLog>>

\* cancel() of the membership-change case
tlCancel(i) ==
  /\ Alive(i)
  /\ tlPC[i] = "chgCancel"
  /\ ctxDone' = [ctxDone EXCEPT ![i][gen[i]] = TRUE]
  /\ tlPC' = [tlPC EXCEPT ![i] = "chgWait"]
  /\ UNCHANGED <<topics, spawnIdx, gen, mu, stopper, wg, consumers, watch,
                 workerVars, chanVars, closeVars, instance, crashed, storeVars>>
  /\ UNCHANGED <<auxVars, errLog>>

\* cg.wg.Wait() of the ctx.Done and membership-change cases, then loop
tlWait(i) ==
  /\ Alive(i)
  /\ tlPC[i] \in {"ctxWait", "chgWait"}
  /\ wgWait(i)
  /\ tlPC' = [tlPC EXCEPT ![i] = "lock"]
  /\ UNCHANGED <<topics, spawnIdx, gen, mu, stopper, wg, ctxDone, consumers, watch,
                 workerVars, chanVars, closeVars, instance, crashed, storeVars>>
  /\ UNCHANGED <<auxVars, errLog>>

\* ---- sends on the downstream channels ----

\* a send can proceed when the buffer has room; on a closed channel it panics
CanSend(ch) == ch.closed > 0 \/ ch.len < ChannelBufferSize
Sent(ch) == IF ch.closed > 0 THEN ch ELSE [ch EXCEPT !.len = @ + 1]
SendPanics(ch) == ch.closed > 0

\* &sarama.ConsumerError{Topic: t, Partition: p, Err: e}
ConsumerError(t, p, e) == [Topic |-> t, Partition |-> p, Err |-> e]

\* the error e is sent on cg.errors of instance i
Emit(i, e) ==
  errLog' = [errLog EXCEPT ![i] =
               IF SendPanics(errors[i]) \/ Len(@) >= histCap
                 THEN @ ELSE Append(@, e)]

\* ---- topicConsumer, w = <<instance, generation, topic>> ----

\* the select on ctx.Done() at the start: return (deferred cg.wg.Done())
tcStart(w) ==
  /\ Alive(w[1])
  /\ tcPC[w] = "start"
  /\ IF ctxDone[w[1]][w[2]]
       THEN /\ tcPC' = [tcPC EXCEPT ![w] = "done"]
            /\ wg' = [wg EXCEPT ![w[1]] = @ - 1]
       ELSE /\ tcPC' = [tcPC EXCEPT ![w] = "parts"]
            /\ UNCHANGED wg
  /\ UNCHANGED <<loopVars, stopper, ctxDone, lwg, pcPC, tries, acquired,
                 released, chanVars, closeVars, instance, crashed, storeVars>>
  /\ UNCHANGED <<auxVars, errLog>>

\* cg.kazoo.TopicPartitions(topic) succeeds
tcPartitions(w) ==
  /\ Alive(w[1])
  /\ tcPC[w] = "parts"
  /\ tcPC' = [tcPC EXCEPT ![w] = "leaders"]
  /\ UNCHANGED <<loopVars, stopper, wg, ctxDone, lwg, pcPC, tries, acquired,
                 released, chanVars, closeVars, instance, crashed, storeVars>>
  /\ UNCHANGED <<auxVars, errLog>>

\* cg.kazoo.RetrievePartitionLeaders(partitions) succeeds
tcLeaders(w) ==
  /\ Alive(w[1])
  /\ tcPC[w] = "leaders"
  /\ tcPC' = [tcPC EXCEPT ![w] = "assign"]
  /\ UNCHANGED <<loopVars, stopper, wg, ctxDone, lwg, pcPC, tries, acquired,
                 released, chanVars, closeVars, instance, crashed, storeVars>>
  /\ UNCHANGED <<auxVars, errLog>>

\* either query fails: the worker goes on to send a ConsumerError
tcQueryFail(w) ==
  /\ Alive(w[1])
  /\ tcPC[w] \in {"parts", "leaders"}
  /\ tcPC' = [tcPC EXCEPT ![w] = "errSend"]
  /\ UNCHANGED <<loopVars, stopper, wg, ctxDone, lwg, pcPC, tries, acquired,
                 released, chanVars, closeVars, instance, crashed, storeVars>>
  /\ UNCHANGED <<auxVars, errLog>>

\* cg.errors <- &sarama.ConsumerError{...}: a plain blocking send
tcErrSend(w) ==
  /\ Alive(w[1])
  /\ tcPC[w] = "errSend"
  /\ CanSend(errors[w[1]])
  /\ errors' = [errors EXCEPT ![w[1]] = Sent(@)]
  /\ crashed' = [crashed EXCEPT ![w[1]] = SendPanics(errors[w[1]])]
  /\ tcPC' = [tcPC EXCEPT ![w] = "errCancel"]
  /\ UNCHANGED <<loopVars, stopper, wg, ctxDone, lwg, pcPC, tries, acquired,
                 released, messages, closeVars, instance, storeVars>>
  /\ Emit(w[1], ConsumerError(w[3], -1, "query"))
  /\ UNCHANGED auxVars

\* cancel() after a failed query: the generation context is done
QueryCancel_None(w) == ctxDone
QueryCancel(w) == [ctxDone EXCEPT ![w[1]][w[2]] = TRUE]

\* cancel(); return (deferred cg.wg.Done())
tcErrCancel(w) ==
  /\ Alive(w[1])
  /\ tcPC[w] = "errCancel"
  /\ ctxDone' = QueryCancel(w)
  /\ wg' = [wg EXCEPT ![w[1]] = @ - 1]
  /\ tcPC' = [tcPC EXCEPT ![w] = "done"]
  /\ UNCHANGED <<loopVars, stopper, lwg, pcPC, tries, acquired, released,
                 chanVars, closeVars, instance, crashed, storeVars>>
  /\ UNCHANGED <<auxVars, errLog>>

\* myPartitions := dividedPartitions[cg.instanceID]; one partitionConsumer
\* is spawned per assigned partition (wg.Add(1); go ...)
tcAssign(w) ==
  /\ Alive(w[1])
  /\ tcPC[w] = "assign"
  /\ LET my == dividePartitionsBetweenConsumers(consumers[w[1]], w[1])
     IN /\ lwg' = [lwg EXCEPT ![w] = Cardinality(my)]
        /\ pcPC' = [x \in PW |->
                      IF <<x[1], x[2], x[3]>> = w /\ x[4] \in my
                        THEN "claim" ELSE pcPC[x]]
  /\ tcPC' = [tcPC EXCEPT ![w] = "wait"]
  /\ UNCHANGED <<loopVars, stopper, wg, ctxDone, tries, acquired, released,
                 chanVars, closeVars, instance, crashed, storeVars>>
  /\ UNCHANGED <<auxVars, errLog>>

\* wg.Wait() on the local wait-group, then return (deferred cg.wg.Done())
tcWait(w) ==
  /\ Alive(w[1])
  /\ tcPC[w] = "wait"
  /\ lwg[w] = 0
  /\ wg' = [wg EXCEPT ![w[1]] = @ - 1]
  /\ tcPC' = [tcPC EXCEPT ![w] = "done"]
  /\ UNCHANGED <<loopVars, stopper, ctxDone, lwg, pcPC, tries, acquired,
                 released, chanVars, closeVars, instance, crashed, storeVars>>
  /\ UNCHANGED <<auxVars, errLog>>

\* ---- metadata store: partition claims ----

\* ClaimPartition: create-if-absent; "claimed by other" when contended
ClaimPartition(t, p, i) ==
  IF \E j \in Fleet \ {i} : <<t, p, j>> \in claims
    THEN "ErrPartitionClaimedByOther" ELSE "nil"

\* ReleasePartition: removes the claim of the caller, an error if it has none
ReleasePartition(t, p, i) ==
  IF <<t, p, i>> \in claims THEN "nil" ELSE "ErrPartitionNotClaimed"

\* ---- partitionConsumer, w = <<instance, generation, topic, partition>> ----

TopicOf(w) == <<w[1], w[2], w[3]>>

\* what no step of a partitionConsumer before its wg.Done() changes
pcFrame ==
  UNCHANGED <<loopVars, stopper, wg, ctxDone, tcPC, lwg, closeVars, instance,
              registered>>

\* the test of the claim loop on the result of ClaimPartition
ClaimSucceeded_Any(err) == TRUE
ClaimSucceeded(err) == err = "nil"

\* the deferred release is registered before InitializePartition is called
ReleaseDeferred_Late == FALSE
ReleaseDeferred == TRUE

\* return from the claim loop on cancellation
pcClaimCancelled(w) ==
  /\ Alive(w[1])
  /\ pcPC[w] = "claim"
  /\ tries[w] < maxRetries
  /\ ctxDone[w[1]][w[2]]
  /\ pcPC' = [pcPC EXCEPT ![w] = "ret"]
  /\ tries' = [tries EXCEPT ![w] = 0]
  /\ pcFrame
  /\ UNCHANGED <<acquired, released, chanVars, crashed, claims>>
  /\ UNCHANGED <<auxVars, errLog>>

\* the test tries+1 < maxRetries: another attempt is left after this one
RetryLeft_None(w) == FALSE
RetryLeft(w) == tries[w] + 1 < maxRetries

\* what follows a ClaimPartition call that returned err (tries is local to
\* the claim loop: it is cleared when the loop is left)
pcAfterClaim(w, err) ==
  IF ClaimSucceeded(err)
    THEN /\ pcPC' = [pcPC EXCEPT ![w] = "init"]
         /\ acquired' = [acquired EXCEPT ![w] = TRUE]
         /\ tries' = [tries EXCEPT ![w] = 0]
    ELSE /\ UNCHANGED acquired
         /\ IF RetryLeft(w)
              THEN /\ tries' = [tries EXCEPT ![w] = @ + 1]
                   /\ UNCHANGED pcPC
              ELSE /\ pcPC' = [pcPC EXCEPT ![w] = "claimErrSend"]
                   /\ tries' = [tries EXCEPT ![w] = 0]

\* case <-time.After(1 * time.Second): cg.instance.ClaimPartition
\* (a nil handle panics)
pcClaim(w) ==
  /\ Alive(w[1])
  /\ pcPC[w] = "claim"
  /\ tries[w] < maxRetries
  /\ IF instance[w[1]] = "nil"
       THEN /\ crashed' = [crashed EXCEPT ![w[1]] = TRUE]
            /\ UNCHANGED <<claims, pcPC, acquired, tries>>
       ELSE /\ LET err == ClaimPartition(w[3], w[4], w[1])
               IN /\ claims' = IF err = "nil"
                                 THEN claims \cup {<<w[3], w[4], w[1]>>}
                                 ELSE claims
                  /\ pcAfterClaim(w, err)
            /\ UNCHANGED crashed
  /\ pcFrame
  /\ UNCHANGED <<released, chanVars>>
  /\ UNCHANGED <<auxVars, errLog>>

\* ClaimPartition fails with an unexpected error
pcClaimFault(w) ==
  /\ Alive(w[1])
  /\ pcPC[w] = "claim"
  /\ tries[w] < maxRetries
  /\ instance[w[1]] = "set"
  /\ pcAfterClaim(w, "error")
  /\ pcFrame
  /\ UNCHANGED <<released, chanVars, crashed, claims>>
  /\ UNCHANGED <<auxVars, errLog>>

\* the condition of "for tries := 0; tries < maxRetries; tries++" is false:
\* the loop ends without a break and the function goes on after it
pcClaimSkipped(w) ==
  /\ Alive(w[1])
  /\ pcPC[w] = "claim"
  /\ ~(tries[w] < maxRetries)
  /\ pcPC' = [pcPC EXCEPT ![w] = "init"]
  /\ pcFrame
  /\ UNCHANGED <<tries, acquired, released, chanVars, crashed, claims>>
  /\ UNCHANGED <<auxVars, errLog>>

\* the ConsumerError of a failed claim: the topic and the partition
ClaimError_NoPartition(w) == ConsumerError(w[3], -1, "claim")
ClaimError(w) == ConsumerError(w[3], w[4], "claim")

\* the last attempt failed: cg.errors <- ConsumerError; return
pcClaimErrSend(w) ==
  /\ Alive(w[1])
  /\ pcPC[w] = "claimErrSend"
  /\ CanSend(errors[w[1]])
  /\ errors' = [errors EXCEPT ![w[1]] = Sent(@)]
  /\ crashed' = [crashed EXCEPT ![w[1]] = SendPanics(errors[w[1]])]
  /\ pcPC' = [pcPC EXCEPT ![w] = "ret"]
  /\ pcFrame
  /\ UNCHANGED <<tries, acquired, released, messages, claims>>
  /\ Emit(w[1], ClaimError(w))
  /\ UNCHANGED auxVars

\* cg.offsetManager.InitializePartition succeeds
pcInit(w) ==
  /\ Alive(w[1])
  /\ pcPC[w] = "init"
  /\ pcPC' = [pcPC EXCEPT ![w] = "open"]
  /\ pcFrame
  /\ UNCHANGED <<tries, acquired, released, chanVars, crashed, claims>>
  /\ UNCHANGED <<auxVars, errLog>>

\* InitializePartition fails: return, running the deferred calls
pcInitFail(w) ==
  /\ Alive(w[1])
  /\ pcPC[w] = "init"
  /\ pcPC' = [pcPC EXCEPT ![w] = IF ReleaseDeferred THEN "release" ELSE "ret"]
  /\ pcFrame
  /\ UNCHANGED <<tries, acquired, released, chanVars, crashed, claims>>
  /\ UNCHANGED <<auxVars, errLog>>

\* cg.consumePartition succeeds; consumer.Close() is deferred
pcOpen(w) ==
  /\ Alive(w[1])
  /\ pcPC[w] = "open"
  /\ pcPC' = [pcPC EXCEPT ![w] = "loop"]
  /\ pcFrame
  /\ UNCHANGED <<tries, acquired, released, chanVars, crashed, claims>>
  /\ UNCHANGED <<auxVars, errLog>>

\* cg.consumePartition fails: return, running the deferred release
pcOpenFail(w) ==
  /\ Alive(w[1])
  /\ pcPC[w] = "open"
  /\ pcPC' = [pcPC EXCEPT ![w] = "release"]
  /\ pcFrame
  /\ UNCHANGED <<tries, acquired, released, chanVars, crashed, claims>>
  /\ UNCHANGED <<auxVars, errLog>>

\* what follows break partitionConsumerLoop: FinalizePartition is the next
\* statement, the deferred calls run after it
LoopExit_Release == "release"
LoopExit == "finalize"

\* partitionConsumerLoop, case <-ctx.Done(), also inside the nested selects
pcLoopCancelled(w) ==
  /\ Alive(w[1])
  /\ pcPC[w] \in {"loop", "fwdMsg", "fwdErr"}
  /\ ctxDone[w[1]][w[2]]
  /\ pcPC' = [pcPC EXCEPT ![w] = LoopExit]
  /\ pcFrame
  /\ UNCHANGED <<tries, acquired, released, chanVars, crashed, claims>>
  /\ UNCHANGED <<auxVars, errLog>>

\* case message := <-consumer.Messages(), a record
pcLoopMessage(w) ==
  /\ Alive(w[1])
  /\ pcPC[w] = "loop"
  /\ pcPC' = [pcPC EXCEPT ![w] = "fwdMsg"]
  /\ pcFrame
  /\ UNCHANGED <<tries, acquired, released, chanVars, crashed, claims>>
  /\ UNCHANGED <<auxVars, errLog>>

\* case err := <-consumer.Errors(), a non-nil error
pcLoopError(w) ==
  /\ Alive(w[1])
  /\ pcPC[w] = "loop"
  /\ pcPC' = [pcPC EXCEPT ![w] = "fwdErr"]
  /\ pcFrame
  /\ UNCHANGED <<tries, acquired, released, chanVars, crashed, claims>>
  /\ UNCHANGED <<auxVars, errLog>>

\* a nil sentinel on either channel and the reopen fails: leave the loop
pcLoopReopenFail(w) ==
  /\ Alive(w[1])
  /\ pcPC[w] = "loop"
  /\ pcPC' = [pcPC EXCEPT ![w] = LoopExit]
  /\ pcFrame
  /\ UNCHANGED <<tries, acquired, released, chanVars, crashed, claims>>
  /\ UNCHANGED <<auxVars, errLog>>

\* nested select, case messages <- message
pcFwdMsg(w) ==
  /\ Alive(w[1])
  /\ pcPC[w] = "fwdMsg"
  /\ CanSend(messages[w[1]])
  /\ messages' = [messages EXCEPT ![w[1]] = Sent(@)]
  /\ crashed' = [crashed EXCEPT ![w[1]] = SendPanics(messages[w[1]])]
  /\ pcPC' = [pcPC EXCEPT ![w] = "loop"]
  /\ pcFrame
  /\ UNCHANGED <<tries, acquired, released, errors, claims>>
  /\ UNCHANGED <<auxVars, errLog>>

\* nested select, case errors <- err
pcFwdErr(w) ==
  /\ Alive(w[1])
  /\ pcPC[w] = "fwdErr"
  /\ CanSend(errors[w[1]])
  /\ errors' = [errors EXCEPT ![w[1]] = Sent(@)]
  /\ crashed' = [crashed EXCEPT ![w[1]] = SendPanics(errors[w[1]])]
  /\ pcPC' = [pcPC EXCEPT ![w] = "loop"]
  /\ pcFrame
  /\ UNCHANGED <<tries, acquired, released, messages, claims>>
  /\ Emit(w[1], ConsumerError(w[3], w[4], "stream"))
  /\ UNCHANGED auxVars

\* cg.offsetManager.FinalizePartition after the loop
pcFinalize(w) ==
  /\ Alive(w[1])
  /\ pcPC[w] = "finalize"
  /\ pcPC' = [pcPC EXCEPT ![w] = "streamClose"]
  /\ pcFrame
  /\ UNCHANGED <<tries, acquired, released, chanVars, crashed, claims>>
  /\ UNCHANGED <<auxVars, errLog>>

\* deferred consumer.Close()
pcStreamClose(w) ==
  /\ Alive(w[1])
  /\ pcPC[w] = "streamClose"
  /\ pcPC' = [pcPC EXCEPT ![w] = "release"]
  /\ pcFrame
  /\ UNCHANGED <<tries, acquired, released, chanVars, crashed, claims>>
  /\ UNCHANGED <<auxVars, errLog>>

\* deferred cg.instance.ReleasePartition (a nil handle panics): on an error
\* the ConsumerError is sent before the function returns
pcRelease(w) ==
  /\ Alive(w[1])
  /\ pcPC[w] = "release"
  /\ IF instance[w[1]] = "nil"
       THEN /\ crashed' = [crashed EXCEPT ![w[1]] = TRUE]
            /\ UNCHANGED <<claims, pcPC, released>>
       ELSE /\ released' = [released EXCEPT ![w] = TRUE]
            /\ UNCHANGED crashed
            /\ IF ReleasePartition(w[3], w[4], w[1]) = "nil"
                 THEN /\ claims' = claims \ {<<w[3], w[4], w[1]>>}
                      /\ pcPC' = [pcPC EXCEPT ![w] = "ret"]
                 ELSE /\ pcPC' = [pcPC EXCEPT ![w] = "relErrSend"]
                      /\ UNCHANGED claims
  /\ pcFrame
  /\ UNCHANGED <<tries, acquired, chanVars>>
  /\ UNCHANGED <<auxVars, errLog>>

\* ReleasePartition fails with an unexpected error: the claim stays
pcReleaseFault(w) ==
  /\ Alive(w[1])
  /\ pcPC[w] = "release"
  /\ instance[w[1]] = "set"
  /\ released' = [released EXCEPT ![w] = TRUE]
  /\ pcPC' = [pcPC EXCEPT ![w] = "relErrSend"]
  /\ pcFrame
  /\ UNCHANGED <<tries, acquired, chanVars, crashed, claims>>
  /\ UNCHANGED <<auxVars, errLog>>

\* cg.errors <- ConsumerError of the deferred release
pcRelErrSend(w) ==
  /\ Alive(w[1])
  /\ pcPC[w] = "relErrSend"
  /\ CanSend(errors[w[1]])
  /\ errors' = [errors EXCEPT ![w[1]] = Sent(@)]
  /\ crashed' = [crashed EXCEPT ![w[1]] = SendPanics(errors[w[1]])]
  /\ pcPC' = [pcPC EXCEPT ![w] = "ret"]
  /\ pcFrame
  /\ UNCHANGED <<tries, acquired, released, messages, claims>>
  /\ Emit(w[1], ConsumerError(w[3], w[4], "release"))
  /\ UNCHANGED auxVars

\* the deferred wg.Done(), the last thing the worker does (acquired and
\* released describe a running worker: they are cleared with it)
pcDone(w) ==
  /\ Alive(w[1])
  /\ pcPC[w] = "ret"
  /\ pcPC' = [pcPC EXCEPT ![w] = "done"]
  /\ lwg' = [lwg EXCEPT ![TopicOf(w)] = @ - 1]
  /\ acquired' = [acquired EXCEPT ![w] = FALSE]
  /\ released' = [released EXCEPT ![w] = FALSE]
  /\ UNCHANGED <<loopVars, stopper, wg, ctxDone, tcPC, tries, chanVars,
                 closeVars, instance, crashed, storeVars>>
  /\ UNCHANGED <<auxVars, errLog>>

\* ---- the application reads the downstream channels ----
appReadMessage(i) ==
  /\ messages[i].len > 0
  /\ messages' = [messages EXCEPT ![i].len = @ - 1]
  /\ UNCHANGED <<loopVars, stopper, wg, ctxDone, workerVars, errors,
                 closeVars, instance, crashed, storeVars>>
  /\ UNCHANGED <<auxVars, errLog>>

appReadError(i) ==
  /\ errors[i].len > 0
  /\ errors' = [errors EXCEPT ![i].len = @ - 1]
  /\ UNCHANGED <<loopVars, stopper, wg, ctxDone, workerVars, messages,
                 closeVars, instance, crashed, storeVars>>
  /\ UNCHANGED <<auxVars, errLog>>

\* ---- Close, call c on instance i ----

\* cg.singleShutdown.Do runs the function for the first caller only
OnceFresh_Always(i) == TRUE
OnceFresh(i) == once[i] = "new"

\* cg.wg.Wait() of Close
closeJoined_NoWait(i) == TRUE
closeJoined(i) == wg[i] = 0

\* shutdownError := AlreadyClosing; cg.singleShutdown.Do(...)
\* (the callers are interchangeable: they are taken in the order of their ids)
closeCall(i, c) ==
  /\ Alive(i)
  /\ tlPC[i] # "none"
  /\ clPC[i][c] = "idle"
  /\ \A d \in Closers : d < c => clPC[i][d] # "idle"
  /\ IF OnceFresh(i)
       THEN /\ once' = [once EXCEPT ![i] = "running"]
            /\ clPC' = [clPC EXCEPT ![i][c] = "lock"]
       ELSE /\ clPC' = [clPC EXCEPT ![i][c] = "onceWait"]
            /\ UNCHANGED once
  /\ UNCHANGED <<loopVars, stopper, wg, ctxDone, workerVars, chanVars, ret,
                 log, instance, crashed, storeVars>>
  /\ UNCHANGED <<auxVars, errLog>>

\* Do returns to a later caller once the first call's function has returned
closeOnceWait(i, c) ==
  /\ Alive(i)
  /\ clPC[i][c] = "onceWait"
  /\ once[i] = "done"
  /\ ret' = [ret EXCEPT ![i][c] = "AlreadyClosing"]
  /\ clPC' = [clPC EXCEPT ![i][c] = "returned"]
  /\ UNCHANGED <<loopVars, stopper, wg, ctxDone, workerVars, chanVars, once,
                 log, instance, crashed, storeVars>>
  /\ UNCHANGED <<auxVars, errLog>>

\* cg.mu.Lock()
closeLock(i, c) ==
  /\ Alive(i)
  /\ clPC[i][c] = "lock"
  /\ mu[i] = "free"
  /\ mu' = [mu EXCEPT ![i] = "close"]
  /\ clPC' = [clPC EXCEPT ![i][c] = "stopper"]
  /\ UNCHANGED <<topics, tlPC, spawnIdx, gen, consumers, watch, stopper, wg, ctxDone,
                 workerVars, chanVars, once, ret, log, instance, crashed,
                 storeVars>>
  /\ UNCHANGED <<auxVars, errLog>>

\* close(cg.stopper): closing a closed channel panics
closeStopper(i, c) ==
  /\ Alive(i)
  /\ clPC[i][c] = "stopper"
  /\ stopper' = [stopper EXCEPT ![i] = TRUE]
  /\ crashed' = [crashed EXCEPT ![i] = stopper[i]]
  /\ log' = [log EXCEPT ![i] = Append(@, "stopper")]
  /\ clPC' = [clPC EXCEPT ![i][c] = "unlock"]
  /\ UNCHANGED <<loopVars, wg, ctxDone, workerVars, chanVars, once, ret,
                 instance, storeVars>>
  /\ UNCHANGED <<auxVars, errLog>>

\* cg.mu.Unlock()
closeUnlock(i, c) ==
  /\ Alive(i)
  /\ clPC[i][c] = "unlock"
  /\ mu' = [mu EXCEPT ![i] = "free"]
  /\ clPC' = [clPC EXCEPT ![i][c] = "wait"]
  /\ UNCHANGED <<topics, tlPC, spawnIdx, gen, consumers, watch, stopper, wg, ctxDone,
                 workerVars, chanVars, once, ret, log, instance, crashed,
                 storeVars>>
  /\ UNCHANGED <<auxVars, errLog>>

\* cg.wg.Wait()
closeWait(i, c) ==
  /\ Alive(i)
  /\ clPC[i][c] = "wait"
  /\ closeJoined(i)
  /\ log' = [log EXCEPT ![i] = Append(@, "joined")]
  /\ clPC' = [clPC EXCEPT ![i][c] = "offsetManager"]
  /\ UNCHANGED <<loopVars, stopper, wg, ctxDone, workerVars, chanVars, once,
                 ret, instance, crashed, storeVars>>
  /\ UNCHANGED <<auxVars, errLog>>

\* cg.offsetManager.Close()
closeOffsetManager(i, c) ==
  /\ Alive(i)
  /\ clPC[i][c] = "offsetManager"
  /\ log' = [log EXCEPT ![i] = Append(@, "offsetManager")]
  /\ clPC' = [clPC EXCEPT ![i][c] = "deregister"]
  /\ UNCHANGED <<loopVars, stopper, wg, ctxDone, workerVars, chanVars, once,
                 ret, instance, crashed, storeVars>>
  /\ UNCHANGED <<auxVars, errLog>>

\* cg.instance.Deregister() (a nil handle panics)
closeDeregister(i, c) ==
  /\ Alive(i)
  /\ clPC[i][c] = "deregister"
  /\ IF instance[i] = "nil"
       THEN /\ crashed' = [crashed EXCEPT ![i] = TRUE]
            /\ UNCHANGED <<registered, watch, log, clPC>>
       ELSE /\ registered' = registered \ {i}
            /\ watch' = FireWatches(watch)
            /\ log' = [log EXCEPT ![i] = Append(@, "deregister")]
            /\ clPC' = [clPC EXCEPT ![i][c] = "broker"]
            /\ UNCHANGED crashed
  /\ UNCHANGED <<topics, tlPC, spawnIdx, gen, mu, consumers, stopper, wg, ctxDone,
                 workerVars, chanVars, once, ret, instance, claims>>
  /\ UNCHANGED <<auxVars, errLog>>

\* shutdownError = cg.consumer.Close() (its value is drawn where Close
\* returns it)
closeBroker(i, c) ==
  /\ Alive(i)
  /\ clPC[i][c] = "broker"
  /\ UNCHANGED ret
  /\ log' = [log EXCEPT ![i] = Append(@, "broker")]
  /\ clPC' = [clPC EXCEPT ![i][c] = "messages"]
  /\ UNCHANGED <<loopVars, stopper, wg, ctxDone, workerVars, chanVars, once,
                 instance, crashed, storeVars>>
  /\ UNCHANGED <<auxVars, errLog>>

\* close(cg.messages): closing a closed channel panics
closeMessages(i, c) ==
  /\ Alive(i)
  /\ clPC[i][c] = "messages"
  /\ messages' = [messages EXCEPT ![i].closed = @ + 1]
  /\ crashed' = [crashed EXCEPT ![i] = messages[i].closed > 0]
  /\ log' = [log EXCEPT ![i] = Append(@, "messages")]
  /\ clPC' = [clPC EXCEPT ![i][c] = "errors"]
  /\ UNCHANGED <<loopVars, stopper, wg, ctxDone, workerVars, errors, once,
                 ret, instance, storeVars>>
  /\ UNCHANGED <<auxVars, errLog>>

\* close(cg.errors)
closeErrors(i, c) ==
  /\ Alive(i)
  /\ clPC[i][c] = "errors"
  /\ errors' = [errors EXCEPT ![i].closed = @ + 1]
  /\ crashed' = [crashed EXCEPT ![i] = errors[i].closed > 0]
  /\ log' = [log EXCEPT ![i] = Append(@, "errors")]
  /\ clPC' = [clPC EXCEPT ![i][c] = "nil"]
  /\ UNCHANGED <<loopVars, stopper, wg, ctxDone, workerVars, messages, once,
                 ret, instance, storeVars>>
  /\ UNCHANGED <<auxVars, errLog>>

\* cg.instance = nil
closeNil(i, c) ==
  /\ Alive(i)
  /\ clPC[i][c] = "nil"
  /\ instance' = [instance EXCEPT ![i] = "nil"]
  /\ log' = [log EXCEPT ![i] = Append(@, "nil")]
  /\ clPC' = [clPC EXCEPT ![i][c] = "kazoo"]
  /\ UNCHANGED <<loopVars, stopper, wg, ctxDone, workerVars, chanVars, once,
                 ret, crashed, storeVars>>
  /\ UNCHANGED <<auxVars, errLog>>

\* deferred cg.kazoo.Close(): the session ends and with it the ephemeral
\* nodes of the instance; Do marks the Once done; Close returns the result
\* of cg.consumer.Close()
closeKazoo(i, c) ==
  /\ Alive(i)
  /\ clPC[i][c] = "kazoo"
  /\ \E r \in {"nil", "error"} : ret' = [ret EXCEPT ![i][c] = r]
  /\ claims' = {x \in claims : x[3] # i}
  /\ registered' = registered \ {i}
  /\ watch' = IF i \in registered THEN FireWatches(watch) ELSE watch
  /\ log' = [log EXCEPT ![i] = Append(@, "kazoo")]
  /\ once' = [once EXCEPT ![i] = "done"]
  /\ clPC' = [clPC EXCEPT ![i][c] = "returned"]
  /\ UNCHANGED <<topics, tlPC, spawnIdx, gen, mu, consumers, stopper, wg, ctxDone,
                 workerVars, chanVars, instance, crashed>>
  /\ UNCHANGED <<auxVars, errLog>>

\* ---- the steps of a set I of instances ----

WorkersOf(I) == {w \in TW : w[1] \in I}
PartWorkersOf(I) == {w \in PW : w[1] \in I}

\* the steps of one generation in which every call on the store and the
\* broker succeeds; Join is called with a number of topics in N
Run(I, N) ==
  \/ \E i \in I, n \in N : JoinConsumerGroup(i, n)
  \/ \E i \in I : tlLock(i)
  \/ \E i \in I : tlWatch(i)
  \/ \E i \in I : tlSpawn(i)
  \/ \E i \in I : tlUnlock(i)
  \/ \E i \in I : tlWait(i)
  \/ \E w \in WorkersOf(I) : tcStart(w)
  \/ \E w \in WorkersOf(I) : tcPartitions(w)
  \/ \E w \in WorkersOf(I) : tcLeaders(w)
  \/ \E w \in WorkersOf(I) : tcAssign(w)
  \/ \E w \in WorkersOf(I) : tcWait(w)
  \/ \E w \in PartWorkersOf(I) : pcClaimCancelled(w)
  \/ \E w \in PartWorkersOf(I) : pcClaim(w)
  \/ \E w \in PartWorkersOf(I) : pcClaimErrSend(w)
  \/ \E w \in PartWorkersOf(I) : pcInit(w)
  \/ \E w \in PartWorkersOf(I) : pcOpen(w)
  \/ \E w \in PartWorkersOf(I) : pcLoopCancelled(w)
  \/ \E w \in PartWorkersOf(I) : pcFinalize(w)
  \/ \E w \in PartWorkersOf(I) : pcStreamClose(w)
  \/ \E w \in PartWorkersOf(I) : pcRelease(w)
  \/ \E w \in PartWorkersOf(I) : pcDone(w)

\* the steps of the top-level loop on a membership change
Rebalance(I) ==
  \/ \E i \in I : tlSelectChange(i)
  \/ \E i \in I : tlRegistered(i)
  \/ \E i \in I : tlCancel(i)

\* Close, called by the callers C, and what the top-level loop does only
\* once Close has acted
Shutdown(I, C) ==
  \/ \E i \in I : tlSelectStopper(i)
  \/ \E i \in I : tlRegister(i)
  \/ \E i \in I, c \in C : closeCall(i, c)
  \/ \E i \in I, c \in C : closeLock(i, c)
  \/ \E i \in I, c \in C : closeStopper(i, c)
  \/ \E i \in I, c \in C : closeUnlock(i, c)
  \/ \E i \in I, c \in C : closeWait(i, c)
  \/ \E i \in I, c \in C : closeOffsetManager(i, c)
  \/ \E i \in I, c \in C : closeDeregister(i, c)
  \/ \E i \in I, c \in C : closeBroker(i, c)
  \/ \E i \in I, c \in C : closeMessages(i, c)
  \/ \E i \in I, c \in C : closeErrors(i, c)
  \/ \E i \in I, c \in C : closeNil(i, c)
  \/ \E i \in I, c \in C : closeKazoo(i, c)

\* the steps in which every call on the store and the broker succeeds;
\* Close is called by the callers C, Join with a number of topics in N
Core(I, C, N) ==
  \/ Run(I, N)
  \/ Rebalance(I)
  \/ Shutdown(I, C)

\* a Close call that finds the Once taken
Again(I, C) ==
  \E i \in I, c \in C : closeOnceWait(i, c)

\* the steps of the record and error streams and of the application
Streams(I) ==
  \/ \E w \in PartWorkersOf(I) : pcLoopMessage(w)
  \/ \E w \in PartWorkersOf(I) : pcLoopError(w)
  \/ \E w \in PartWorkersOf(I) : pcFwdMsg(w)
  \/ \E w \in PartWorkersOf(I) : pcFwdErr(w)
  \/ \E i \in I : appReadMessage(i)
  \/ \E i \in I : appReadError(i)

\* the steps in which a call on the store or the broker fails, and what
\* follows from them
Faults(I) ==
  \/ \E i \in I : tlWatchFail(i)
  \/ \E i \in I : tlSelectCtx(i)
  \/ \E w \in WorkersOf(I) : tcQueryFail(w)
  \/ \E w \in WorkersOf(I) : tcErrSend(w)
  \/ \E w \in WorkersOf(I) : tcErrCancel(w)
  \/ \E w \in PartWorkersOf(I) : pcClaimFault(w)
  \/ \E w \in PartWorkersOf(I) : pcInitFail(w)
  \/ \E w \in PartWorkersOf(I) : pcOpenFail(w)
  \/ \E w \in PartWorkersOf(I) : pcLoopReopenFail(w)
  \/ \E w \in PartWorkersOf(I) : pcReleaseFault(w)
  \/ \E w \in PartWorkersOf(I) : pcRelErrSend(w)

\* ---- one instance with all its failure paths, its peers and one Close ----
Next ==
  \/ Core(Solo, {1}, Topics)
  \/ Streams(Solo)
  \/ Faults(Solo)
  \/ PeerChange

Spec == Init /\ [][Next]_vars

\* ---- the same with several Close calls, for one topic ----
CloseNext ==
  \/ Core(Solo, Closers, {1})
  \/ Again(Solo, Closers)
  \/ Streams(Solo)
  \/ Faults(Solo)
  \/ PeerChange

CloseSpec == Init /\ [][CloseNext]_vars

\* ---- a fleet of instances of one group against one store ----
FleetNext ==
  \/ Core(Fleet, {1}, {1})
  \/ \E i \in Fleet : appReadError(i)

FleetSpec == Init /\ [][FleetNext]_vars

\* ---- one instance under the scheduler's fairness ----
\* every goroutine that can take a step of the program eventually takes it;
\* nothing is assumed of the application, the peers, the broker's records or
\* the failures
FairNext ==
  \/ Core(Solo, {1}, {1})
  \/ Streams(Solo)
  \/ Faults(Solo)
  \/ PeerChange

\* the goroutines of the library: the loop and the workers
RunFairness ==
  /\ \A i \in Solo :
       /\ WF_vars(tlLock(i)) /\ WF_vars(tlWatch(i)) /\ WF_vars(tlSpawn(i))
       /\ WF_vars(tlUnlock(i)) /\ WF_vars(tlSelectCtx(i))
       /\ WF_vars(tlSelectChange(i)) /\ WF_vars(tlRegistered(i))
       /\ WF_vars(tlCancel(i)) /\ WF_vars(tlWait(i))
  /\ \A w \in WorkersOf(Solo) :
       /\ WF_vars(tcStart(w)) /\ WF_vars(tcPartitions(w))
       /\ WF_vars(tcLeaders(w)) /\ WF_vars(tcErrSend(w))
       /\ WF_vars(tcErrCancel(w)) /\ WF_vars(tcAssign(w)) /\ WF_vars(tcWait(w))
  /\ \A w \in PartWorkersOf(Solo) :
       /\ WF_vars(pcClaimCancelled(w)) /\ WF_vars(pcClaim(w))
       /\ WF_vars(pcClaimErrSend(w)) /\ WF_vars(pcInit(w)) /\ WF_vars(pcOpen(w))
       /\ WF_vars(pcLoopCancelled(w)) /\ WF_vars(pcFwdMsg(w))
       /\ WF_vars(pcFwdErr(w)) /\ WF_vars(pcFinalize(w))
       /\ WF_vars(pcStreamClose(w)) /\ WF_vars(pcRelease(w))
       /\ WF_vars(pcRelErrSend(w)) /\ WF_vars(pcDone(w))

\* the goroutine that calls Close, and what the loop does once it has
Fairness ==
  /\ RunFairness
  /\ \A i \in Solo :
       /\ WF_vars(tlSelectStopper(i)) /\ WF_vars(tlRegister(i))
       /\ WF_vars(closeCall(i, 1)) /\ WF_vars(closeLock(i, 1))
       /\ WF_vars(closeStopper(i, 1)) /\ WF_vars(closeUnlock(i, 1))
       /\ WF_vars(closeWait(i, 1)) /\ WF_vars(closeOffsetManager(i, 1))
       /\ WF_vars(closeDeregister(i, 1)) /\ WF_vars(closeBroker(i, 1))
       /\ WF_vars(closeMessages(i, 1)) /\ WF_vars(closeErrors(i, 1))
       /\ WF_vars(closeNil(i, 1)) /\ WF_vars(closeKazoo(i, 1))

FairSpec == Init /\ [][FairNext]_vars /\ Fairness

\* ---- one instance that is never closed, under the scheduler's fairness ----
RebalanceNext ==
  \/ Run(Solo, {1})
  \/ Rebalance(Solo)
  \/ Streams(Solo)
  \/ Faults(Solo)
  \/ PeerChange

RebalanceSpec == Init /\ [][RebalanceNext]_vars /\ RunFairness

\* ---- one instance without Close, for every ProcessingTimeout, with
\* the contents of the errors it sends ----
WorkerInit ==
  /\ Constructed
  /\ \E pt \in 0..MaxTimeout : Configured(pt, HistCap)
  /\ join = NotCalled
  /\ Partition(OffsetOldest)

WorkerNext ==
  \/ Run(Solo, Topics)
  \/ Faults(Solo)
  \/ \E i \in Solo : appReadError(i)

WorkerSpec == WorkerInit /\ [][WorkerNext]_vars

\* ---- one instance without Close, for every ProcessingTimeout that
\* Config.Validate lets through, the negative ones included ----
AnyTimeoutInit ==
  /\ Constructed
  /\ \E pt \in (-MaxTimeout)..MaxTimeout : Configured(pt, HistCap)
  /\ join = NotCalled
  /\ Partition(OffsetOldest)

AnyTimeoutNext ==
  \/ WorkerNext
  \/ \E w \in PartWorkersOf(Solo) : pcClaimSkipped(w)

AnyTimeoutSpec == AnyTimeoutInit /\ [][AnyTimeoutNext]_vars

\* ---- JoinConsumerGroup and Config.Validate on their arguments ----

\* Config.Validate: "nil" or the error returned (cgc.Zookeeper is
\* dereferenced first)
Validate(cgc) ==
  IF cgc.Zookeeper = Nil THEN "panic"
  ELSE IF Deref(cgc.Zookeeper) <= 0
    THEN "ZookeeperTimeout should have a duration > 0"
  ELSE IF cgc.CommitInterval < 0
    THEN "CommitInterval should have a duration >= 0"
  ELSE IF cgc.Initial # OffsetOldest /\ cgc.Initial # OffsetNewest
    THEN "Offsets.Initial should be sarama.OffsetOldest or sarama.OffsetNewest."
  ELSE IF cgc.Config # Nil /\ Deref(cgc.Config) = "invalid"
    THEN "sarama configuration error"
  ELSE "nil"

\* what a call returns: an error, a panic, or a handle
Returned(res, made, go) ==
  [result |-> res, constructed |-> made, spawned |-> go]

\* the constructor switch: DefaultConsumerGroup or cgConstructor[0] is
\* called and fails when the store or the brokers cannot be reached
Construct(a) ==
  IF a.cgConstructor > 1
    THEN Returned("more than one cgConstructor is not supported", FALSE, FALSE)
  ELSE IF ~a.reachable
    THEN Returned("connection error", TRUE, FALSE)
  ELSE Returned("handle", TRUE, TRUE)

\* JoinConsumerGroup on the arguments a
JoinOutcome(a) ==
  IF a.name = ""
    THEN Returned("Empty consumergroup name", FALSE, FALSE)
  ELSE IF a.topics = 0
    THEN Returned("No topics provided", FALSE, FALSE)
  ELSE IF a.zookeeper = 0
    THEN Returned("you need to provide at least one zookeeper node address",
                  FALSE, FALSE)
  ELSE LET config == Deref(IF a.config = Nil THEN NewConfig ELSE a.config)
       IN \* config.ClientID = name writes through the embedded pointer
          IF config.Config = Nil THEN Returned("panic", FALSE, FALSE)
          ELSE IF Validate(config) # "nil"
            THEN Returned(Validate(config), FALSE, FALSE)
          ELSE Construct(a)

\* the call returns (or panics)
JoinCall ==
  /\ join.pc = "called"
  /\ join' = [pc |-> "returned", args |-> join.args,
              result |-> JoinOutcome(join.args).result,
              constructed |-> JoinOutcome(join.args).constructed,
              spawned |-> JoinOutcome(join.args).spawned]
  /\ UNCHANGED <<coreVars, cfgVars, errLog, offsetVars>>

JoinInit ==
  /\ Constructed
  /\ Configured(ProcessingTimeoutSec * Second, 0)
  /\ Partition(OffsetOldest)
  /\ \E a \in JoinArguments : join = [NotCalled EXCEPT !.pc = "called", !.args = a]

JoinNext == JoinCall

JoinSpec == JoinInit /\ [][JoinNext]_vars

\* ---- the offsets of one partition: broker log, stream, ledger, store ----

\* what no step on the offsets of the partition changes
offFrame == UNCHANGED <<coreVars, cfgVars, errLog, join, initial>>

\* sarama's Consumer.ConsumePartition: where the stream starts, or
\* ErrOffsetOutOfRange
ConsumePartition(offset) ==
  IF offset = OffsetOldest THEN [err |-> "nil", pos |-> blog.oldest]
  ELSE IF offset = OffsetNewest THEN [err |-> "nil", pos |-> blog.newest]
  ELSE IF blog.oldest <= offset /\ offset <= blog.newest
    THEN [err |-> "nil", pos |-> offset]
  ELSE [err |-> "ErrOffsetOutOfRange", pos |-> -1]

\* cg.consumePartition: one retry at oldest or newest, per Offsets.Initial,
\* when the offset is out of range; reset tells that the retry was made (the
\* "offset out of Range" line is logged)
consumePartition_Newest(nextOffset) ==
  LET first == ConsumePartition(nextOffset)
      retry == ConsumePartition(OffsetNewest)
  IN IF first.err = "ErrOffsetOutOfRange"
       THEN [err |-> retry.err, pos |-> retry.pos, reset |-> TRUE]
       ELSE [err |-> first.err, pos |-> first.pos, reset |-> FALSE]
consumePartition(nextOffset) ==
  LET first == ConsumePartition(nextOffset)
      retry == ConsumePartition(IF initial = OffsetOldest
                                  THEN OffsetOldest ELSE OffsetNewest)
  IN IF first.err = "ErrOffsetOutOfRange"
       THEN [err |-> retry.err, pos |-> retry.pos, reset |-> TRUE]
       ELSE [err |-> first.err, pos |-> first.pos, reset |-> FALSE]

\* the offset the stream is reopened at after a nil sentinel
ReopenAt_Start == part.nextOffset
ReopenAt == part.lastOffset

\* the ledger entry InitializePartition creates for the committed offset c
NewEntry(c) == Ref([processed |-> c - 1, committed |-> c - 1])

\* instance i has acquired the claim: the worker goes on to
\* InitializePartition
strStart(i) ==
  /\ part.pc = "idle"
  /\ part.gen < MaxRuns
  /\ part' = [pc |-> "init", inst |-> i, gen |-> part.gen + 1,
              nextOffset |-> -1, lastOffset |-> -1, msg |-> -1]
  /\ UNCHANGED <<blog, stream, sent, ledger, committed>>
  /\ offFrame

\* nextOffset, err := cg.offsetManager.InitializePartition(...): the
\* committed offset or a negative sentinel; then the fallback to
\* Offsets.Initial
strInit ==
  /\ part.pc = "init"
  /\ ledger' = [ledger EXCEPT ![part.inst] = NewEntry(committed)]
  /\ part' = [part EXCEPT !.pc = "open",
                          !.nextOffset = IF committed >= 0
                                           THEN committed ELSE initial]
  /\ UNCHANGED <<blog, stream, sent, committed>>
  /\ offFrame

\* InitializePartition fails: return
strInitFail ==
  /\ part.pc = "init"
  /\ part' = [part EXCEPT !.pc = "return"]
  /\ UNCHANGED <<blog, stream, sent, ledger, committed>>
  /\ offFrame

\* consumer, err := cg.consumePartition(topic, partition, nextOffset);
\* var lastOffset int64 = -1
strOpen ==
  /\ part.pc = "open"
  /\ consumePartition(part.nextOffset).err = "nil"
  /\ stream' = [state |-> "open", pos |-> consumePartition(part.nextOffset).pos,
                reset |-> consumePartition(part.nextOffset).reset]
  /\ part' = [part EXCEPT !.pc = "loop", !.lastOffset = -1]
  /\ UNCHANGED <<blog, sent, ledger, committed>>
  /\ offFrame

\* cg.consumePartition fails: return
strOpenFail ==
  /\ part.pc = "open"
  /\ part' = [part EXCEPT !.pc = "return"]
  /\ UNCHANGED <<blog, stream, sent, ledger, committed>>
  /\ offFrame

\* case message := <-consumer.Messages(), a record
strTake ==
  /\ part.pc = "loop"
  /\ stream.state = "open"
  /\ blog.oldest <= stream.pos /\ stream.pos < blog.newest
  /\ part' = [part EXCEPT !.pc = "fwd", !.msg = stream.pos]
  /\ stream' = [stream EXCEPT !.pos = @ + 1]
  /\ UNCHANGED <<blog, sent, ledger, committed>>
  /\ offFrame

\* case messages <- message: lastOffset = message.Offset
strForward ==
  /\ part.pc = "fwd"
  /\ Len(sent[part.inst]) < SentCap
  /\ sent' = [sent EXCEPT ![part.inst] =
                 Append(@, [gen |-> part.gen, offset |-> part.msg])]
  /\ part' = [part EXCEPT !.pc = "loop", !.lastOffset = part.msg, !.msg = -1]
  /\ UNCHANGED <<blog, stream, ledger, committed>>
  /\ offFrame

\* case <-ctx.Done(): break partitionConsumerLoop
strCancelled ==
  /\ part.pc \in {"loop", "fwd"}
  /\ part' = [part EXCEPT !.pc = "finalize", !.msg = -1]
  /\ UNCHANGED <<blog, stream, sent, ledger, committed>>
  /\ offFrame

\* a nil sentinel: consumer, cErr = cg.consumePartition(..., lastOffset)
strNil ==
  /\ part.pc = "loop"
  /\ stream.state = "broken"
  /\ consumePartition(ReopenAt).err = "nil"
  /\ stream' = [state |-> "open", pos |-> consumePartition(ReopenAt).pos,
                reset |-> consumePartition(ReopenAt).reset]
  /\ UNCHANGED <<blog, part, sent, ledger, committed>>
  /\ offFrame

\* the reopening fails: break partitionConsumerLoop
strNilFail ==
  /\ part.pc = "loop"
  /\ stream.state = "broken"
  /\ part' = [part EXCEPT !.pc = "finalize"]
  /\ UNCHANGED <<blog, stream, sent, ledger, committed>>
  /\ offFrame

\* cg.offsetManager.FinalizePartition(topic, partition, lastOffset,
\* ProcessingTimeout): after the wait (the application may not mark in
\* time) the mark is committed if it advanced, and the entry is removed
strFinalize ==
  /\ part.pc = "finalize"
  /\ LET e == Deref(ledger[part.inst])
     IN committed' = IF e.processed > e.committed
                       THEN e.processed + 1 ELSE committed
  /\ ledger' = [ledger EXCEPT ![part.inst] = Nil]
  /\ part' = [part EXCEPT !.pc = "return"]
  /\ UNCHANGED <<blog, stream, sent>>
  /\ offFrame

\* the deferred calls: consumer.Close(), ReleasePartition, wg.Done()
strReturn ==
  /\ part.pc = "return"
  /\ stream' = [stream EXCEPT !.state = "none"]
  /\ part' = [part EXCEPT !.pc = "idle"]
  /\ UNCHANGED <<blog, sent, ledger, committed>>
  /\ offFrame

\* the application of instance i acknowledges a record it has received:
\* MarkAsProcessed advances the mark of an existing entry if greater
appMarkAsProcessed(i, o) ==
  /\ ledger[i] # Nil
  /\ \E k \in DOMAIN sent[i] : sent[i][k].offset = o
  /\ o > Deref(ledger[i]).processed
  /\ ledger' = [ledger EXCEPT ![i] =
                   Ref([processed |-> o,
                        committed |-> Deref(ledger[i]).committed])]
  /\ UNCHANGED <<blog, stream, part, sent, committed>>
  /\ offFrame

\* the committer of instance i (every CommitInterval, or Flush): an entry
\* whose mark advanced since its last commit is written to the store
omCommit(i) ==
  /\ ledger[i] # Nil
  /\ Deref(ledger[i]).processed > Deref(ledger[i]).committed
  /\ committed' = Deref(ledger[i]).processed + 1
  /\ ledger' = [ledger EXCEPT ![i] =
                   Ref([processed |-> Deref(ledger[i]).processed,
                        committed |-> Deref(ledger[i]).processed])]
  /\ UNCHANGED <<blog, stream, part, sent>>
  /\ offFrame

\* a producer appends a record to the partition
brokerProduce ==
  /\ blog.newest < MaxOffset
  /\ blog' = [blog EXCEPT !.newest = @ + 1]
  /\ UNCHANGED <<stream, part, sent, ledger, committed>>
  /\ offFrame

\* retention removes the oldest record
brokerExpire ==
  /\ blog.oldest < blog.newest
  /\ blog' = [blog EXCEPT !.oldest = @ + 1]
  /\ UNCHANGED <<stream, part, sent, ledger, committed>>
  /\ offFrame

\* the stream closes on the broker's side: its channels yield nil
brokerCloseStream ==
  /\ stream.state = "open"
  /\ part.pc = "loop"
  /\ stream' = [stream EXCEPT !.state = "broken"]
  /\ UNCHANGED <<blog, part, sent, ledger, committed>>
  /\ offFrame

\* the steps of the partition consumer of an instance in I, of its
\* application and of its committer
Consume(I) ==
  \/ \E i \in I : strStart(i)
  \/ strInit
  \/ strOpen
  \/ strOpenFail
  \/ strTake
  \/ strForward
  \/ strCancelled
  \/ strFinalize
  \/ strReturn
  \/ \E i \in I, o \in 0..MaxOffset : appMarkAsProcessed(i, o)
  \/ \E i \in I : omCommit(i)
  \/ brokerProduce

\* the broker closes streams and expires records
Reconnect ==
  \/ strInitFail
  \/ strNil
  \/ strNilFail
  \/ brokerExpire
  \/ brokerCloseStream

\* ---- one instance consuming the partition, generation after generation ----
StreamInit ==
  /\ Constructed
  /\ Configured(ProcessingTimeoutSec * Second, 0)
  /\ join = NotCalled
  /\ \E pol \in {OffsetOldest, OffsetNewest} : Partition(pol)

StreamNext ==
  \/ Consume(Solo)
  \/ Reconnect

StreamSpec == StreamInit /\ [][StreamNext]_vars

\* ---- the partition handed over between the instances of the fleet ----
HandOverNext == Consume(Fleet)

HandOverSpec == Init /\ [][HandOverNext]_vars

\* ---- properties ----

ShutdownSteps ==
  <<"stopper", "joined", "offsetManager", "deregister", "broker", "messages",
    "errors", "nil", "kazoo">>

Range(q) == {q[k] : k \in DOMAIN q}
Count(x, q) == Cardinality({k \in DOMAIN q : q[k] = x})
IsPrefix(q, r) == Len(q) <= Len(r) /\ \A k \in DOMAIN q : q[k] = r[k]

\* no topic consumer and no partition consumer of instance i is running
AllWorkersExited(i) ==
  /\ \A w \in TW : w[1] = i => tcPC[w] \in {"idle", "done"}
  /\ \A w \in PW : w[1] = i => pcPC[w] \in {"idle", "done"}

\* a worker of instance i is in a send on messages or errors
SomeWorkerSending(i) ==
  \/ \E w \in TW : w[1] = i /\ tcPC[w] = "errSend"
  \/ \E w \in PW : w[1] = i /\
       pcPC[w] \in {"claimErrSend", "fwdMsg", "fwdErr", "relErrSend"}

\* C1: messages and errors are closed at most once, only by a step of Close,
\* and only when every topic consumer and partition consumer has exited (so
\* no worker is in, or later enters, a send on a closed channel).
C1_ChannelsClosedOnceAfterWorkers ==
  \A i \in Fleet :
    /\ messages[i].closed <= 1 /\ errors[i].closed <= 1
    /\ messages[i].closed = Count("messages", log[i])
    /\ errors[i].closed = Count("errors", log[i])
    /\ (messages[i].closed > 0 \/ errors[i].closed > 0) =>
         AllWorkersExited(i) /\ ~SomeWorkerSending(i)

\* both channels are closed after a partition consumer ran and exited
C1_Witness ==
  \E w \in PW : /\ pcPC[w] = "done"
                /\ messages[w[1]].closed = 1 /\ errors[w[1]].closed = 1

\* the top-level loop is about to run cg.wg.Add(1) for another topic
SpawnPending(i) == tlPC[i] = "spawn" /\ spawnIdx[i] <= topics[i]

\* C8: the top-level loop never adds to the wait-group once the stopper is
\* closed, and when Close's wg.Wait() has returned every worker ever spawned
\* has exited.
C8_NoSpawnAfterStopper ==
  \A i \in Fleet :
    /\ stopper[i] => ~SpawnPending(i)
    /\ "joined" \in Range(log[i]) => wg[i] = 0 /\ AllWorkersExited(i)

\* Close waits for the mutex while the loop, which passed the stopper check,
\* still spawns
C8_Witness ==
  \E i \in Fleet : /\ clPC[i][1] = "lock" /\ mu[i] = "loop"
                   /\ SpawnPending(i) /\ wg[i] > 0

\* C9: every running topic consumer and partition consumer belongs to the
\* generation the top-level loop started last: the workers of generation g
\* have all exited when generation g+1 is set up.
C9_OneGenerationAtATime ==
  /\ \A w \in TW : w[2] # gen[w[1]] => tcPC[w] \in {"idle", "done"}
  /\ \A w \in PW : w[2] # gen[w[1]] => pcPC[w] \in {"idle", "done"}

\* a second generation runs after a first one whose partition consumer exited
C9_Witness ==
  \E i \in Fleet, t \in Topics, p \in Parts :
    /\ gen[i] = 2
    /\ pcPC[<<i, 1, t, p>>] = "done"
    /\ \E u \in Topics : tcPC[<<i, 2, u>>] \notin {"idle", "done"}

\* C10: a partition consumer that acquired its claim has called
\* ReleasePartition when it reaches its deferred wg.Done(), and a topic
\* consumer signals cg.wg only after all its partition consumers have exited.
C10_ReleaseBeforeDone ==
  \A w \in PW :
    /\ pcPC[w] = "ret" /\ acquired[w] => released[w]
    /\ tcPC[TopicOf(w)] = "done" => pcPC[w] \in {"idle", "done"}

\* a worker that acquired and released its claim is about to signal completion
C10_Witness ==
  \E w \in PW : pcPC[w] = "ret" /\ acquired[w] /\ released[w]

\* the Close call has started or finished the shutdown function itself
Executes(i, c) ==
  \/ clPC[i][c] \notin {"idle", "onceWait", "returned"}
  \/ clPC[i][c] = "returned" /\ ret[i][c] # "AlreadyClosing"

\* C5: however many Close calls there are, every step of the shutdown
\* sequence is executed at most once, by one call; when any call has returned
\* the whole sequence has been executed exactly once, and every call but the
\* executing one returned AlreadyClosing.
C5_ShutdownOnce ==
  \A i \in Fleet :
    /\ \A x \in Range(log[i]) : Count(x, log[i]) = 1
    /\ Cardinality({c \in Closers : Executes(i, c)}) <= 1
    /\ \A c \in Closers :
         clPC[i][c] = "returned" =>
           /\ log[i] = ShutdownSteps
           /\ \E d \in Closers : Executes(i, d)

\* two Close calls have returned, the second one with AlreadyClosing
C5_Witness ==
  \E i \in Fleet :
    /\ clPC[i][1] = "returned" /\ ret[i][1] # "AlreadyClosing"
    /\ clPC[i][2] = "returned" /\ ret[i][2] = "AlreadyClosing"

\* instance i holds the claim of partition p of topic t: the store records
\* it, or a partition consumer of i acquired it and has not yet released it
Holds(i, t, p) ==
  \/ <<t, p, i>> \in claims
  \/ \E g \in Gens : /\ acquired[<<i, g, t, p>>]
                     /\ pcPC[<<i, g, t, p>>] \in
                          {"init", "open", "loop", "fwdMsg", "fwdErr",
                           "finalize", "streamClose", "release"}

\* C4: at most one instance of the fleet holds the claim of a partition of a
\* topic.
C4_OneClaimHolder ==
  \A t \in Topics, p \in Parts :
    Cardinality({i \in Fleet : Holds(i, t, p)}) <= 1

\* an instance was refused the claim of a partition another instance holds
C4_Witness ==
  \E i \in Fleet, j \in Fleet, g \in Gens, t \in Topics, p \in Parts :
    /\ i # j
    /\ Holds(i, t, p)
    /\ pcPC[<<j, g, t, p>>] = "claim" /\ tries[<<j, g, t, p>>] > 0

\* C3: once Close has deregistered the instance, the top-level loop does not
\* register it again, does not dereference the nilled handle (no panic) and
\* does not start a watch.
C3_NoWorkerAfterClose ==
  \A i \in Fleet :
    "deregister" \in Range(log[i]) =>
      /\ i \notin registered
      /\ ~crashed[i]
      /\ tlPC[i] # "watch"

\* C6: the shutdown steps occur in the order of ShutdownSteps, the stopper is
\* closed with the mutex held, and the join is complete only when the
\* top-level loop and all its workers have exited.
C6_ShutdownOrder ==
  \A i \in Fleet :
    /\ IsPrefix(log[i], ShutdownSteps)
    /\ \A c \in Closers : clPC[i][c] \in {"stopper", "unlock"} => mu[i] = "close"
    /\ "joined" \in Range(log[i]) =>
         wg[i] = 0 /\ AllWorkersExited(i) /\ tlPC[i] = "exit"

\* the steps of one topic consumer and of one partition consumer
tcStep(w) ==
  \/ tcStart(w) \/ tcPartitions(w) \/ tcLeaders(w) \/ tcQueryFail(w)
  \/ tcErrSend(w) \/ tcErrCancel(w) \/ tcAssign(w) \/ tcWait(w)

pcStep(w) ==
  \/ pcClaimCancelled(w) \/ pcClaim(w) \/ pcClaimFault(w) \/ pcClaimErrSend(w)
  \/ pcInit(w) \/ pcInitFail(w) \/ pcOpen(w) \/ pcOpenFail(w)
  \/ pcLoopCancelled(w) \/ pcLoopMessage(w) \/ pcLoopError(w)
  \/ pcLoopReopenFail(w) \/ pcFwdMsg(w) \/ pcFwdErr(w) \/ pcFinalize(w)
  \/ pcStreamClose(w) \/ pcRelease(w) \/ pcReleaseFault(w) \/ pcRelErrSend(w)
  \/ pcDone(w)

\* C7: a worker that is in a send on messages or errors while its generation
\* is cancelled can always go on, whatever the application does: the send is
\* abandoned on cancellation.
C7_SendsAbandonedOnCancel ==
  /\ \A w \in TW :
       Alive(w[1]) /\ tcPC[w] = "errSend" /\ ctxDone[w[1]][w[2]] =>
         ENABLED tcStep(w)
  /\ \A w \in PW :
       /\ Alive(w[1]) /\ ctxDone[w[1]][w[2]]
       /\ pcPC[w] \in {"claimErrSend", "fwdMsg", "fwdErr", "relErrSend"}
       => ENABLED pcStep(w)

\* C2: a Close call made after Join, no later than the first iteration of the
\* top-level loop, returns, and then the instance holds no partition claim.
C2_CloseReturns ==
  \A i \in Solo :
    (clPC[i][1] # "idle" /\ gen[i] <= 1) ~>
      (clPC[i][1] = "returned" /\ \A x \in claims : x[3] # i)

\* a ledger entry of the worker exists and FinalizePartition is still to come
LedgerOpen(w) == pcPC[w] \in {"open", "loop", "fwdMsg", "fwdErr"}

\* C16: a partition consumer whose InitializePartition has created a ledger
\* entry calls FinalizePartition before it runs the deferred release and
\* exits, on every exit path: the next step after consuming is FinalizePartition.
C16_FinalizeOnEveryExit ==
  [][\A w \in PW :
       (LedgerOpen(w) /\ ~LedgerOpen(w)') => pcPC'[w] = "finalize"]_vars

\* the least number of whole seconds that cover the duration a (a >= 0)
CeilSeconds(a) == (a + Second - 1) \div Second

\* C17: a partition consumer that gives up claiming has made
\* ceil(ProcessingTimeout / 1s) + 2 attempts.
C17_RetryBudgetIsCeiling ==
  [][\A w \in PW :
       (pcPC[w] = "claim" /\ pcPC'[w] = "claimErrSend") =>
         tries[w] + 1 = CeilSeconds(timeout) + 2]_vars

\* the last error kept in the log of instance i
LastLogged(i) == errLog[i][Len(errLog[i])]

\* C20: a partition consumer whose last claim attempt failed holds no claim
\* and has neither initialised a ledger entry nor opened a stream; its next
\* step sends one ConsumerError with its topic and its partition id and takes
\* it to its return, with no release, no cancellation of the generation and
\* no effect on the other partition consumers.
C20_ClaimFailureEmitsOneError ==
  [][\A w \in PW :
       /\ (pcPC[w] = "claim" /\ pcPC'[w] = "claimErrSend") =>
            errors' = errors /\ errLog' = errLog
       /\ pcPC[w] = "claimErrSend" =>
            ~acquired[w] /\ ~released[w]
       /\ (pcPC[w] = "claimErrSend" /\ pcPC'[w] # "claimErrSend") =>
            /\ pcPC'[w] = "ret"
            /\ errors'[w[1]].len = errors[w[1]].len + 1
            /\ Len(errLog[w[1]]) < histCap =>
                 /\ Len(errLog'[w[1]]) = Len(errLog[w[1]]) + 1
                 /\ LastLogged(w[1])'.Topic = w[3]
                 /\ LastLogged(w[1])'.Partition = w[4]
            /\ ~released'[w] /\ claims' = claims
            /\ ctxDone' = ctxDone
            /\ \A x \in PW \ {w} : pcPC'[x] = pcPC[x]]_vars

\* a worker has given up and sent its error while a partition consumer of
\* the same generation goes on consuming
C20_Witness ==
  \E w \in PW, x \in PW :
    /\ x[1] = w[1] /\ x[2] = w[2] /\ x # w
    /\ pcPC[w] = "done" /\ pcPC[x] = "loop"
    /\ ~ctxDone[w[1]][w[2]]
    /\ \E k \in DOMAIN errLog[w[1]] :
         errLog[w[1]][k] = [Topic |-> w[3], Partition |-> w[4], Err |-> "claim"]

\* the partition consumers of topic consumer w
PartsOf(w) == {x \in PW : TopicOf(x) = w}

\* C19: a topic consumer whose partition or leader query failed has spawned
\* no partition consumer; it sends one ConsumerError with its topic and
\* partition -1, then cancels the generation and exits, still without a
\* partition consumer; the loop can take the cancellation, and a new
\* generation starts only after the join and with the stopper open.
C19_QueryFailureCancelsGeneration ==
  [][/\ \A w \in TW :
          /\ tcPC[w] \in {"errSend", "errCancel"} =>
               lwg[w] = 0 /\ \A x \in PartsOf(w) : pcPC[x] = "idle"
          /\ (tcPC[w] = "errSend" /\ tcPC'[w] # "errSend") =>
               /\ tcPC'[w] = "errCancel"
               /\ errors'[w[1]].len = errors[w[1]].len + 1
               /\ Len(errLog[w[1]]) < histCap =>
                    /\ Len(errLog'[w[1]]) = Len(errLog[w[1]]) + 1
                    /\ LastLogged(w[1])'.Topic = w[3]
                    /\ LastLogged(w[1])'.Partition = -1
               /\ ctxDone' = ctxDone
          /\ (tcPC[w] = "errCancel" /\ tcPC'[w] # "errCancel") =>
               /\ tcPC'[w] = "done"
               /\ ctxDone'[w[1]][w[2]]
               /\ wg'[w[1]] = wg[w[1]] - 1
               /\ errors' = errors /\ errLog' = errLog
               /\ pcPC' = pcPC
     /\ \A i \in Solo :
          /\ (tlPC[i] = "select" /\ ctxDone[i][gen[i]] /\ Alive(i)) =>
               ENABLED tlSelectCtx(i)
          /\ gen'[i] # gen[i] =>
               /\ wg[i] = 0 /\ ~stopper[i]
               /\ \A w \in TW : w[1] = i => tcPC[w] \in {"idle", "done"}]_vars

\* a query failure has been reported with partition -1, its generation is
\* cancelled, and the loop has started the next generation
C19_Witness ==
  \E w \in TW :
    /\ tcPC[w] = "done" /\ ctxDone[w[1]][w[2]]
    /\ \A x \in PartsOf(w) : pcPC[x] = "idle"
    /\ gen[w[1]] > w[2]
    /\ \E v \in TW : v[1] = w[1] /\ v[2] = gen[w[1]] /\ tcPC[v] = "wait"
    /\ \E k \in DOMAIN errLog[w[1]] :
         errLog[w[1]][k] = [Topic |-> w[3], Partition |-> -1, Err |-> "query"]

\* another instance holds the claim of the partition of w
HeldByOther(w) == \E j \in Fleet \ {w[1]} : <<w[3], w[4], j>> \in claims

\* the partition consumer w takes a step of its claim loop
ClaimLoopStep(w) ==
  pcPC[w] = "claim" /\ (pcPC'[w] # pcPC[w] \/ tries'[w] # tries[w])

\* C15: an attempt of B that finds the partition claimed by another instance
\* while attempts are left is retried: B stays in the claim loop with one
\* attempt used and nothing is sent on the errors channel; an attempt made
\* once no other instance holds the claim acquires it and takes B on to
\* consuming; B leaves the claim loop otherwise only on cancellation or when
\* its last attempt was refused.
C15_ContendedClaimIsRetried ==
  [][\A w \in PW :
       /\ (ClaimLoopStep(w) /\ HeldByOther(w)) =>
            /\ errors' = errors /\ claims' = claims /\ ~acquired'[w]
            /\ \/ ctxDone[w[1]][w[2]] /\ pcPC'[w] = "ret"
               \/ /\ tries[w] + 1 < maxRetries
                  /\ pcPC'[w] = "claim" /\ tries'[w] = tries[w] + 1
               \/ /\ tries[w] + 1 = maxRetries
                  /\ pcPC'[w] = "claimErrSend"
       /\ (ClaimLoopStep(w) /\ ~HeldByOther(w)) =>
            \/ ctxDone[w[1]][w[2]] /\ pcPC'[w] = "ret" /\ claims' = claims
            \/ /\ pcPC'[w] = "init" /\ acquired'[w]
               /\ <<w[3], w[4], w[1]>> \in claims'
               /\ errors' = errors
       /\ (pcPC[w] = "claim" /\ ~HeldByOther(w) /\ Alive(w[1])
              /\ instance[w[1]] = "set") =>
            ENABLED pcClaim(w)
       /\ (pcPC[w] = "init" /\ Alive(w[1])) => ENABLED pcInit(w)]_vars

\* B has been refused once and is still in its claim loop with an attempt
\* left; A has released the claim and nobody holds it
C15_Witness ==
  \E w \in PW, a \in PW :
    /\ a[1] # w[1] /\ a[3] = w[3] /\ a[4] = w[4]
    /\ pcPC[w] = "claim" /\ tries[w] >= 1 /\ tries[w] < maxRetries
    /\ ~ctxDone[w[1]][w[2]]
    /\ released[a]
    /\ \A j \in Fleet : <<w[3], w[4], j>> \notin claims

\* C13: when the member-list watch has fired while generation g is running
\* and the stopper is open, the loop eventually starts the next generation
\* (unless the stopper is closed meanwhile or the loop returns on a failed
\* store call).
C13_WatchLeadsToNewGeneration ==
  \A i \in Solo : \A g \in 1..(MaxGen - 1) :
    (watch[i] = "fired" /\ tlPC[i] = "select" /\ gen[i] = g /\ ~stopper[i])
      ~> (gen[i] > g \/ stopper[i] \/ tlPC[i] = "exit")

\* the arguments the validation rejects
EmptyArgument(a) == a.name = "" \/ a.topics = 0 \/ a.zookeeper = 0

BadOffsetsConfig(a) ==
  /\ a.config # Nil
  /\ \/ Deref(a.config).CommitInterval < 0
     \/ Deref(a.config).Initial \notin {OffsetOldest, OffsetNewest}

\* C14: a Join call with an empty group name, an empty topic list, an empty
\* endpoint list, a negative commit interval or an Initial policy other than
\* oldest/newest returns an error: it does not panic, invokes no
\* constructor, spawns no loop and returns no handle.
C14_InvalidArgumentsReturnError ==
  (join.pc = "returned" /\ (EmptyArgument(join.args) \/ BadOffsetsConfig(join.args)))
    => /\ join.result \notin {"handle", "panic"}
       /\ ~join.constructed
       /\ ~join.spawned

\* the first record the stream has not handed over and the log still holds
NextDue == IF stream.pos < blog.oldest THEN blog.oldest ELSE stream.pos

\* C18: when the worker reopens the stream after a nil sentinel and the
\* offset it asks for is not out of range, the new stream starts no later
\* than the first record not yet forwarded, whether or not a record has been
\* forwarded: no record is skipped.
C18_ReopenSkipsNothing ==
  [][(/\ part.pc = "loop" /\ stream.state = "broken" /\ stream'.state = "open"
      /\ ConsumePartition(ReopenAt).err = "nil")
       => stream'.pos <= NextDue]_vars

\* C11 as stated: every record sent on Messages() for the partition has an
\* offset at least every offset the same handle sent for it before, over
\* reconnections, out-of-range fallbacks and successive generations.
C11_OffsetsNeverGoBack ==
  \A i \in Fleet : \A j, k \in DOMAIN sent[i] :
    j < k => sent[i][j].offset <= sent[i][k].offset

\* C11: within one generation, every record sent on Messages() for the
\* partition has an offset at least every offset sent for it before in that
\* generation, over reconnections and out-of-range fallbacks.
C11_OffsetsOrderedWithinGeneration ==
  \A i \in Fleet : \A j, k \in DOMAIN sent[i] :
    (j < k /\ sent[i][j].gen = sent[i][k].gen) =>
      sent[i][j].offset <= sent[i][k].offset

\* a generation has sent a record, reopened its stream after a nil sentinel
\* and sent again
C11_Witness ==
  /\ part.pc = "loop" /\ stream.state = "open"
  /\ \E j, k \in DOMAIN sent[part.inst] :
       /\ j < k
       /\ sent[part.inst][j].gen = part.gen /\ sent[part.inst][k].gen = part.gen
       /\ sent[part.inst][j].offset = sent[part.inst][k].offset

\* C12: the committed offsets written to the store for the partition never
\* decrease, over the commits of the committer, finalisation and the
\* hand-over of the partition between instances.
C12_CommittedNeverDecreases ==
  [][committed' >= committed]_vars

\* the positions of a partition consumer inside partitionConsumerLoop
InLoop(w) == pcPC[w] \in {"loop", "fwdMsg", "fwdErr"}

\* the claim of the partition of w is held by the instance of w
OwnClaim(w) == <<w[3], w[4], w[1]>> \in claims

\* C24: a partition consumer that leaves its main loop goes to
\* FinalizePartition, then closes the stream, then calls ReleasePartition,
\* holding its claim until that call; so another instance acquires the
\* claim of the partition only when no partition consumer of the partition
\* that has acquired it is still before its release.
C24_ReleaseAfterFinalize ==
  [][\A w \in PW :
       /\ (InLoop(w) /\ ~InLoop(w)') => pcPC'[w] = "finalize"
       /\ (pcPC[w] = "finalize" /\ pcPC'[w] # "finalize") =>
            pcPC'[w] = "streamClose" /\ ~released'[w]
       /\ (pcPC[w] = "streamClose" /\ pcPC'[w] # "streamClose") =>
            pcPC'[w] = "release" /\ ~released'[w]
       /\ (InLoop(w) \/ pcPC[w] \in {"finalize", "streamClose"}) =>
            OwnClaim(w) /\ OwnClaim(w)'
       /\ (~released[w] /\ released'[w]) => pcPC[w] = "release"
       /\ (~OwnClaim(w) /\ OwnClaim(w)') =>
            \A x \in PW :
              (x[1] # w[1] /\ x[3] = w[3] /\ x[4] = w[4] /\ acquired[x]) =>
                released[x]]_vars

\* a partition consumer has finalised, closed its stream and released, and
\* a partition consumer of another instance has acquired the claim
C24_Witness ==
  \E w \in PW, x \in PW :
    /\ x[1] # w[1] /\ x[3] = w[3] /\ x[4] = w[4]
    /\ acquired[w] /\ released[w] /\ pcPC[w] = "ret"
    /\ acquired[x] /\ OwnClaim(x) /\ pcPC[x] \in {"init", "open", "loop"}

\* C23: whatever ProcessingTimeout is, a partition consumer is at
\* InitializePartition, at the opening of the stream, in its consume loop or
\* at ReleasePartition only after one of its own ClaimPartition calls
\* returned success.
C23_ConsumesOnlyAfterClaim ==
  \A w \in PW :
    (pcPC[w] \in {"init", "open", "loop", "fwdMsg", "fwdErr", "finalize",
                  "streamClose", "release", "relErrSend"} \/ released[w])
      => acquired[w]

\* the top-level loop of i returned from the failure branch of
\* WatchInstances: its last generation was cancelled at once and no topic
\* consumer of it was ever spawned
WatchFailed(i) ==
  /\ tlPC[i] = "exit"
  /\ gen[i] >= 1
  /\ ctxDone[i][gen[i]]
  /\ \A w \in WorkersOf({i}) : w[2] = gen[i] => tcPC[w] = "idle"

\* the shutdown sequence of Close has run to its end, once, and both
\* channels are closed
ShutDown(i) ==
  /\ \E c \in Closers : clPC[i][c] = "returned"
  /\ log[i] = ShutdownSteps
  /\ messages[i].closed = 1 /\ errors[i].closed = 1
  /\ ~crashed[i]

\* C21: when WatchInstances fails, the top-level loop releases the mutex and
\* returns without spawning a topic consumer (no worker is alive then: the
\* wait group is at zero); afterwards no generation is started and no
\* worker is spawned; and Close then runs its whole shutdown sequence and
\* closes both channels.
C21_WatchFailureEndsLoop ==
  /\ [][\A i \in Solo :
          /\ (tlPC[i] = "watch" /\ tlPC'[i] = "exit") =>
               /\ mu'[i] = "free"
               /\ wg[i] = 0 /\ wg'[i] = 0
               /\ tcPC' = tcPC /\ pcPC' = pcPC
               /\ WatchFailed(i)'
          /\ WatchFailed(i) =>
               /\ WatchFailed(i)'
               /\ gen'[i] = gen[i] /\ wg'[i] = 0
               /\ tcPC' = tcPC /\ pcPC' = pcPC]_vars
  /\ \A i \in Solo : WatchFailed(i) ~> ShutDown(i)

\* the watch of the second generation failed, the loop returned, and Close
\* has run to its end
C21_Witness ==
  \E i \in Solo :
    /\ WatchFailed(i) /\ gen[i] = 2
    /\ ShutDown(i)

\* the first attempt to open the stream at the offset is out of range
OutOfRange(offset) == ConsumePartition(offset).err = "ErrOffsetOutOfRange"

\* the stream in use was opened at line 553 by the retry, Offsets.Initial is
\* oldest, and the generation has forwarded no record yet
ResetToOldest ==
  /\ stream.state = "open" /\ stream.reset
  /\ initial = OffsetOldest
  /\ part.lastOffset = -1

\* C22: the opening of the stream either succeeds or makes the worker
\* return. When the offset asked for is out of range and the opening
\* succeeds, the stream is the one of the single retry and starts at the
\* oldest offset of the log if Offsets.Initial is oldest, at the newest
\* otherwise; an offset in range is opened as asked. With Initial oldest the
\* first record taken from the retried stream, and sent as the first record
\* of the generation, is the oldest record of the log. A worker whose
\* opening failed sends nothing, opens nothing and goes through its deferred
\* calls, which release the claim.
C22_OutOfRangeRetriesOnceAtInitial ==
  [][/\ (part.pc = "open" /\ part'.pc # "open") =>
          /\ sent' = sent
          /\ \/ /\ part'.pc = "loop"
                /\ stream'.state = "open"
                /\ IF OutOfRange(part.nextOffset)
                     THEN /\ stream'.reset
                          /\ stream'.pos = IF initial = OffsetOldest
                                             THEN blog.oldest ELSE blog.newest
                     ELSE /\ ~stream'.reset
                          /\ stream'.pos = ConsumePartition(part.nextOffset).pos
             \/ /\ part'.pc = "return"
                /\ stream' = stream
     /\ (ResetToOldest /\ part.pc = "loop" /\ part'.pc = "fwd") =>
          part'.msg = blog.oldest
     /\ (ResetToOldest /\ part.pc = "fwd" /\ part'.pc = "loop") =>
          /\ \A k \in DOMAIN sent[part.inst] : sent[part.inst][k].gen # part.gen
          /\ sent'[part.inst] =
               Append(sent[part.inst], [gen |-> part.gen, offset |-> part.msg])
     /\ (part.pc = "return" /\ part'.pc # "return") =>
          /\ part'.pc = "idle"
          /\ stream'.state = "none"]_vars

\* the committed offset had been expired from the log, the stream was opened
\* by the retry at the oldest offset, and the worker has sent the record at
\* that offset, which the log still holds, as the first one of its generation
C22_Witness ==
  /\ initial = OffsetOldest /\ stream.state = "open" /\ stream.reset
  /\ part.pc = "loop"
  /\ part.nextOffset >= 0 /\ part.nextOffset < part.lastOffset
  /\ blog.oldest <= part.lastOffset
  /\ part.lastOffset + 1 = stream.pos
  /\ \E k \in DOMAIN sent[part.inst] :
       /\ sent[part.inst][k] = [gen |-> part.gen, offset |-> part.lastOffset]
       /\ \A j \in DOMAIN sent[part.inst] :
            j # k => sent[part.inst][j].gen # part.gen

====
